---- MODULE Spec2Model ----
(***************************************************************************)
(* Model of quick_aqi: the AQI library (libs/aqi/src/lib.rs) and the       *)
(* PMSA003I frame validators (src/pmsa003i.rs).                            *)
(*                                                                         *)
(* f32 values are records [sign, exp, man] holding the three IEEE-754      *)
(* binary32 fields (1, 8 and 23 bits).  The arithmetic below is the        *)
(* round-to-nearest-even arithmetic of the hardware, written over          *)
(* integers that stay below 2^31.                                          *)
(***************************************************************************)
EXTENDS Integers, Sequences, FiniteSets

(***************************************************************************)
(* binary32                                                                *)
(***************************************************************************)
Pow2(n) == 2 ^ n

ManBits == 23

ExpBias == 127

ExpMax == 255

Hidden == Pow2(ManBits)

F32(s, e, m) == [sign |-> s, exp |-> e, man |-> m]

F32Zero == F32(0, 0, 0)

F32NegZero == F32(1, 0, 0)

F32Inf == F32(0, ExpMax, 0)

F32NaN == F32(0, ExpMax, Pow2(ManBits - 1))

IsNaN(x) == x.exp = ExpMax /\ x.man # 0

IsZero(x) == x.exp = 0 /\ x.man = 0

IsFinite(x) == x.exp < ExpMax

\* The significand and exponent of a finite x: |x| = Sig(x) * 2^Exp2(x).
Sig(x) == IF x.exp = 0 THEN x.man ELSE Hidden + x.man

Exp2(x) == IF x.exp = 0 THEN 1 - ExpBias - ManBits ELSE x.exp - ExpBias - ManBits

RECURSIVE BitLen(_)
BitLen(n) == IF n = 0 THEN 0 ELSE 1 + BitLen(n \div 2)

\* The binary32 nearest to (m + d) * 2^e, ties to even, where m < 2^30 and
\* 0 < d < 1 when sticky, d = 0 otherwise.
F32RoundPack(s, m, e, sticky) ==
    IF m = 0 THEN F32(s, 0, 0)
    ELSE
    LET emin == 1 - ExpBias - ManBits
        len == BitLen(m)
        k == IF len - (ManBits + 1) > emin - e THEN len - (ManBits + 1) ELSE emin - e
    IN  IF k <= 0
        THEN \* exact: shift left as far as the exponent range allows
            LET room == (ManBits + 1) - len
                sh == IF room < e - emin THEN room ELSE e - emin
                mm == m * Pow2(sh)
                ee == e - sh
            IN  IF mm < Hidden THEN F32(s, 0, mm)
                ELSE IF ee + ExpBias + ManBits >= ExpMax THEN F32(s, ExpMax, 0)
                ELSE F32(s, ee + ExpBias + ManBits, mm - Hidden)
        ELSE IF k > 30 THEN F32(s, 0, 0)
        ELSE
            LET q == m \div Pow2(k)
                r == m % Pow2(k)
                half == Pow2(k - 1)
                up == IF sticky THEN r >= half
                      ELSE r > half \/ (r = half /\ q % 2 = 1)
                q1 == IF up THEN q + 1 ELSE q
                mm == IF q1 = 2 * Hidden THEN Hidden ELSE q1
                ee == IF q1 = 2 * Hidden THEN e + k + 1 ELSE e + k
            IN  IF mm < Hidden THEN F32(s, 0, mm)
                ELSE IF ee + ExpBias + ManBits >= ExpMax THEN F32(s, ExpMax, 0)
                ELSE F32(s, ee + ExpBias + ManBits, mm - Hidden)

\* `n as f32` for an unsigned integer n < 2^30.
F32FromInt(n) == F32RoundPack(0, n, 0, FALSE)

\* A finite non-zero x with its significand shifted up to 24 bits.
NormSig(x) == Sig(x) * Pow2((ManBits + 1) - BitLen(Sig(x)))

NormExp(x) == Exp2(x) - ((ManBits + 1) - BitLen(Sig(x)))

\* The order of non-NaN values as integers (-0.0 and 0.0 both 0).
F32Ord(x) == IF x.sign = 0 THEN x.exp * Hidden + x.man ELSE 0 - (x.exp * Hidden + x.man)

\* a <= b and a >= b of f32: false when either is NaN.
F32Le(a, b) == ~IsNaN(a) /\ ~IsNaN(b) /\ F32Ord(a) <= F32Ord(b)

F32Ge(a, b) == F32Le(b, a)

\* b's significand, with three guard bits, shifted right by d: <<bits, lost>>.
ShiftRightJam(mb, d) ==
    IF d > ManBits + 4 THEN <<0, mb # 0>>
    ELSE <<(mb * 8) \div Pow2(d), ((mb * 8) % Pow2(d)) # 0>>

\* a - b for finite a >= b >= 0 (and the signed zeros).
F32Sub(a, b) ==
    IF IsZero(a) /\ IsZero(b)
    THEN (IF a.sign = 1 /\ b.sign = 0 THEN F32NegZero ELSE F32Zero)
    ELSE
    LET d == Exp2(a) - Exp2(b)
        sh == ShiftRightJam(Sig(b), d)
        m == Sig(a) * 8 - sh[1] - (IF sh[2] THEN 1 ELSE 0)
    IN  F32RoundPack(0, m, Exp2(a) - 3, sh[2])

\* a + b for finite a, b >= 0 (and the signed zeros).
F32Add(a, b) ==
    IF IsZero(a) /\ IsZero(b)
    THEN (IF a.sign = 1 /\ b.sign = 1 THEN F32NegZero ELSE F32Zero)
    ELSE
    LET hi == IF Exp2(a) >= Exp2(b) THEN a ELSE b
        lo == IF Exp2(a) >= Exp2(b) THEN b ELSE a
        d == Exp2(hi) - Exp2(lo)
        sh == ShiftRightJam(Sig(lo), d)
        m == Sig(hi) * 8 + sh[1]
    IN  F32RoundPack(0, m, Exp2(hi) - 3, sh[2])

\* a * b for finite a, b.
F32Mul(a, b) ==
    LET s == (a.sign + b.sign) % 2
    IN  IF IsZero(a) \/ IsZero(b) THEN F32(s, 0, 0)
        ELSE
        LET ma == NormSig(a)
            mb == NormSig(b)
            half == Pow2(12)
            a1 == ma \div half
            a0 == ma % half
            b1 == mb \div half
            b0 == mb % half
            mid == a1 * b0 + a0 * b1
            t == a0 * b0 + (mid % half) * half
            lo == t % Pow2(24)
            hi == a1 * b1 + mid \div half + t \div Pow2(24)
            \* the product is hi * 2^24 + lo, with hi >= 2^22
            m == hi * 64 + lo \div Pow2(18)
            sticky == (lo % Pow2(18)) # 0
        IN  F32RoundPack(s, m, NormExp(a) + NormExp(b) + 18, sticky)

\* n more quotient bits of rem / mb: <<quotient, remainder>>.
RECURSIVE DivSteps(_, _, _, _)
DivSteps(q, rem, mb, n) ==
    IF n = 0 THEN <<q, rem>>
    ELSE LET r2 == 2 * rem
         IN  IF r2 >= mb THEN DivSteps(2 * q + 1, r2 - mb, mb, n - 1)
             ELSE DivSteps(2 * q, r2, mb, n - 1)

\* a / b for finite a >= 0 and finite b > 0.
F32Div(a, b) ==
    IF IsZero(a) THEN F32Zero
    ELSE
    LET ma == NormSig(a)
        mb == NormSig(b)
        qr == DivSteps(ma \div mb, ma % mb, mb, 26)
    IN  F32RoundPack(0, qr[1], NormExp(a) - NormExp(b) - 26, qr[2] # 0)

\* The f32 a decimal literal n / scale denotes (n, scale < 2^24).
F32FromDecimal(n, scale) == F32Div(F32FromInt(n), F32FromInt(scale))

\* roundf with the fraction dropped instead of rounded.
roundf_truncating(x) ==
    IF Exp2(x) >= 0 THEN x
    ELSE IF 0 - Exp2(x) > ManBits + 1 THEN F32(x.sign, 0, 0)
    ELSE F32RoundPack(x.sign, Sig(x) \div Pow2(0 - Exp2(x)), 0, FALSE)

\* libm::roundf for finite x >= 0: the nearest integer, halves away from zero.
roundf(x) ==
    IF Exp2(x) >= 0 THEN x
    ELSE IF 0 - Exp2(x) > ManBits + 1 THEN F32(x.sign, 0, 0)
    ELSE LET unit == Pow2(0 - Exp2(x))
             ip == Sig(x) \div unit
             fr == Sig(x) % unit
         IN  F32RoundPack(x.sign, (IF 2 * fr >= unit THEN ip + 1 ELSE ip), 0, FALSE)

U16Max == 65535

\* `x as u16`: towards zero, saturating, NaN to 0.
F32ToU16(x) ==
    IF IsNaN(x) \/ x.sign = 1 THEN 0
    ELSE IF F32Ge(x, F32FromInt(U16Max)) THEN U16Max
    ELSE IF Exp2(x) >= 0 THEN Sig(x) * Pow2(Exp2(x))
    ELSE IF 0 - Exp2(x) > ManBits + 1 THEN 0
    ELSE Sig(x) \div Pow2(0 - Exp2(x))

(***************************************************************************)
(* libs/aqi/src/lib.rs                                                     *)
(***************************************************************************)
Colors == <<"Green", "Yellow", "Orange", "Red", "Purple", "DarkPurple">>

\* The decimal literals of the table, in tenths.
PM25_TENTHS ==
    << <<0, 90>>, <<91, 354>>, <<355, 554>>, <<555, 1254>>, <<1255, 2254>>, <<2255, 5000>> >>

\* The table with every band reaching up to the next band's lower edge.
PM25_BREAKPOINTS_contiguous ==
    [i \in 1..6 |->
        <<F32FromDecimal(PM25_TENTHS[i][1], 10),
          F32FromDecimal((IF i < 6 THEN PM25_TENTHS[i + 1][1] ELSE PM25_TENTHS[i][2]), 10)>>]

PM25_BREAKPOINTS ==
    [i \in 1..6 |-> <<F32FromDecimal(PM25_TENTHS[i][1], 10), F32FromDecimal(PM25_TENTHS[i][2], 10)>>]

\* The index table with the second range starting where the first ends.
AQI_BREAKPOINTS_overlapping ==
    << <<0, 50>>, <<50, 100>>, <<101, 150>>, <<151, 200>>, <<201, 300>>, <<301, 500>> >>

AQI_BREAKPOINTS ==
    << <<0, 50>>, <<51, 100>>, <<101, 150>>, <<151, 200>>, <<201, 300>>, <<301, 500>> >>

AQI_SATURATED_unclamped == U16Max

AQI_SATURATED == 500

\* The interpolation measured down from the band's upper edge.
Interpolate_descending(pm25, i) ==
    LET pm_low == PM25_BREAKPOINTS[i][1]
        pm_high == PM25_BREAKPOINTS[i][2]
        aqi_low == AQI_BREAKPOINTS[i][1]
        aqi_high == AQI_BREAKPOINTS[i][2]
        slope == F32Div(F32FromInt(aqi_high - aqi_low), F32Sub(pm_high, pm_low))
        aqi == F32Add(F32Mul(slope, F32Sub(pm_high, pm25)), F32FromInt(aqi_low))
    IN  F32ToU16(roundf(aqi))

\* The interpolation of band i at pm25, as the code evaluates it.
Interpolate(pm25, i) ==
    LET pm_low == PM25_BREAKPOINTS[i][1]
        pm_high == PM25_BREAKPOINTS[i][2]
        aqi_low == AQI_BREAKPOINTS[i][1]
        aqi_high == AQI_BREAKPOINTS[i][2]
        slope == F32Div(F32FromInt(aqi_high - aqi_low), F32Sub(pm_high, pm_low))
        aqi == F32Add(F32Mul(slope, F32Sub(pm25, pm_low)), F32FromInt(aqi_low))
    IN  F32ToU16(roundf(aqi))

\* The band test with the upper edge left out.
InBand_exclusive_high(pm25, i) ==
    /\ F32Ge(pm25, PM25_BREAKPOINTS[i][1])
    /\ F32Le(pm25, PM25_BREAKPOINTS[i][2])
    /\ pm25 # PM25_BREAKPOINTS[i][2]

InBand(pm25, i) ==
    F32Ge(pm25, PM25_BREAKPOINTS[i][1]) /\ F32Le(pm25, PM25_BREAKPOINTS[i][2])

\* The loop over the table from index i on.
RECURSIVE ScanFrom(_, _)
ScanFrom(pm25, i) ==
    IF i > Len(AQI_BREAKPOINTS) THEN AQI_SATURATED
    ELSE IF InBand(pm25, i) THEN Interpolate(pm25, i)
    ELSE ScanFrom(pm25, i + 1)

calculate_aqi(pm25) == ScanFrom(pm25, 1)

\* The colour ranges with their upper ends left out.
get_aqi_color_exclusive(aqi) ==
    IF aqi < 50 THEN "Green"
    ELSE IF aqi < 100 THEN "Yellow"
    ELSE IF aqi < 150 THEN "Orange"
    ELSE IF aqi < 200 THEN "Red"
    ELSE IF aqi < 300 THEN "Purple"
    ELSE "DarkPurple"

get_aqi_color(aqi) ==
    IF aqi <= 50 THEN "Green"
    ELSE IF aqi <= 100 THEN "Yellow"
    ELSE IF aqi <= 150 THEN "Orange"
    ELSE IF aqi <= 200 THEN "Red"
    ELSE IF aqi <= 300 THEN "Purple"
    ELSE "DarkPurple"

(***************************************************************************)
(* src/pmsa003i.rs                                                         *)
(***************************************************************************)
\* Byte sequences are 1-based here: the code's bytes[k] is buffer[k + 1].
EXPECTED_HEADER_swapped == <<77, 66>>

EXPECTED_HEADER == <<66, 77>>

TOTAL_REGISTERS == 32

CHECKSUM_OFFSET == 30

U16Mod == 65536

Ok == "Ok"

ErrEmpty == "Buffer is empty"

ErrHeader == "Header validation failed"

ErrLength == "Could not validate checksum, incorrect number of bytes received"

ErrChecksum == "Checksum validation failed"

\* An index past the end of a slice.
Panic == "panic: index out of bounds"

\* What a call returns, and the 0-based indices it read with bytes[k].
Outcome(r, idx) == [result |-> r, read |-> idx]

NoOutcome == Outcome("none", {})

from_le_bytes(b0, b1) == b1 * 256 + b0

from_be_bytes(b0, b1) == b0 * 256 + b1

to_be_bytes(v) == <<(v \div 256) % 256, v % 256>>

wrapping_add(a, b) == (a + b) % U16Mod

validate_header(header_bytes) ==
    IF Len(header_bytes) = 0 THEN Outcome(ErrEmpty, {})
    ELSE IF header_bytes = EXPECTED_HEADER THEN Outcome(Ok, {})
    ELSE IF Len(header_bytes) < 2 THEN Outcome(Panic, {0, 1})
    ELSE Outcome(ErrHeader, {0, 1})

\* The loop over checksum_bytes.iter().take(30), from the i-th byte on.
RECURSIVE SumFrom(_, _, _)
SumFrom(checksum_bytes, i, calculated_sum) ==
    IF i > CHECKSUM_OFFSET \/ i > Len(checksum_bytes) THEN calculated_sum
    ELSE SumFrom(checksum_bytes, i + 1, wrapping_add(calculated_sum, checksum_bytes[i]))

validate_checksum(checksum_bytes) ==
    IF Len(checksum_bytes) < TOTAL_REGISTERS THEN Outcome(ErrLength, {})
    ELSE
    LET calculated_sum == SumFrom(checksum_bytes, 1, 0)
        received_sum ==
            from_be_bytes(checksum_bytes[CHECKSUM_OFFSET + 1], checksum_bytes[CHECKSUM_OFFSET + 2])
    IN  Outcome((IF calculated_sum = received_sum THEN Ok ELSE ErrChecksum),
                0..(CHECKSUM_OFFSET + 1))

ErrShort == "Buffer too short, expected at least 32 bytes"

\* What parse_data returns: Ok with the struct, or the error with none.
Parsed(r, v) == [result |-> r, value |-> v]

NoData == Parsed("none", <<>>)

\* parse_data with pm2_5_env read from the standard-particle field's bytes.
parse_data_shifted(buf) ==
    IF Len(buf) < 32 THEN Parsed(ErrShort, <<>>)
    ELSE Parsed(Ok,
        [_pm1_0_standard |-> from_be_bytes(buf[5], buf[6]),
         _pm2_5_standard |-> from_be_bytes(buf[7], buf[8]),
         _pm10_standard |-> from_be_bytes(buf[9], buf[10]),
         _pm1_0_env |-> from_be_bytes(buf[11], buf[12]),
         pm2_5_env |-> from_be_bytes(buf[7], buf[8]),
         _pm10_env |-> from_be_bytes(buf[15], buf[16]),
         _particles_0_3 |-> from_be_bytes(buf[17], buf[18]),
         _particles_0_5 |-> from_be_bytes(buf[19], buf[20]),
         _particles_1_0 |-> from_be_bytes(buf[21], buf[22]),
         _particles_2_5 |-> from_be_bytes(buf[23], buf[24]),
         _particles_5_0 |-> from_be_bytes(buf[25], buf[26]),
         _particles_10 |-> from_be_bytes(buf[27], buf[28])])

parse_data(buf) ==
    IF Len(buf) < 32 THEN Parsed(ErrShort, <<>>)
    ELSE Parsed(Ok,
        [_pm1_0_standard |-> from_be_bytes(buf[5], buf[6]),
         _pm2_5_standard |-> from_be_bytes(buf[7], buf[8]),
         _pm10_standard |-> from_be_bytes(buf[9], buf[10]),
         _pm1_0_env |-> from_be_bytes(buf[11], buf[12]),
         pm2_5_env |-> from_be_bytes(buf[13], buf[14]),
         _pm10_env |-> from_be_bytes(buf[15], buf[16]),
         _particles_0_3 |-> from_be_bytes(buf[17], buf[18]),
         _particles_0_5 |-> from_be_bytes(buf[19], buf[20]),
         _particles_1_0 |-> from_be_bytes(buf[21], buf[22]),
         _particles_2_5 |-> from_be_bytes(buf[23], buf[24]),
         _particles_5_0 |-> from_be_bytes(buf[25], buf[26]),
         _particles_10 |-> from_be_bytes(buf[27], buf[28])])

(***************************************************************************)
(* src/main.rs                                                             *)
(***************************************************************************)
SENSOR_I2C_ADDR == 18

LedNames ==
    {"led_blue1", "led_red1", "led_orange1", "led_green1",
     "led_blue2", "led_red2", "led_orange2", "led_green2"}

\* all_off with led_blue2 left as it is.
all_off_partial(high) == high \cap {"led_blue2"}

\* LedController::all_off on the set of LEDs that are high: the set after it.
all_off(high) == high \ LedNames

\* LedController::set_color on the set of LEDs that are high.
set_color(high, c) ==
    all_off(high) \cup
        (CASE c = "Green" -> {"led_green1", "led_green2"}
           [] c = "Yellow" -> {"led_green1", "led_orange1"}
           [] c = "Orange" -> {"led_orange1", "led_orange2"}
           [] c = "Red" -> {"led_red1", "led_red2"}
           [] c = "Purple" -> {"led_red1", "led_blue1"}
           [] c = "DarkPurple" -> {"led_red2", "led_blue1", "led_blue2"})

\* The transfer of fetch_data, with the register written first being 0x01.
write_read_from_1 == [addr |-> SENSOR_I2C_ADDR, write |-> <<1>>, read |-> TOTAL_REGISTERS]

\* The one transfer fetch_data starts: i2c.write_read(SENSOR_I2C_ADDR, &[0x00], &mut buffer).
write_read == [addr |-> SENSOR_I2C_ADDR, write |-> <<0>>, read |-> TOTAL_REGISTERS]

\* The transfer main starts before the loop: i2c.write(SENSOR_I2C_ADDR, &[0x00]).
ping == [addr |-> SENSOR_I2C_ADDR, write |-> <<0>>, read |-> 0]

\* Pmsa003iData::default().
Pmsa003iData_default ==
    [_pm1_0_standard |-> 0, _pm2_5_standard |-> 0, _pm10_standard |-> 0,
     _pm1_0_env |-> 0, pm2_5_env |-> 0, _pm10_env |-> 0,
     _particles_0_3 |-> 0, _particles_0_5 |-> 0, _particles_1_0 |-> 0,
     _particles_2_5 |-> 0, _particles_5_0 |-> 0, _particles_10 |-> 0]

\* What one arm of the match on fetch_data's result does: the functions it
\* calls in order, the messages printed by it and by the functions it calls
\* (validate_header prints a warning before it returns its error), the value
\* aqi has after it, and whether it leaves the iteration with `continue`.
Arm(calls, printed, a, skip) ==
    [calls |-> calls, printed |-> printed, aqi |-> a, continue |-> skip]

\* The Ok arm with the sensor's value stored as the AQI.
OkArm_unconverted(sensor_data, stored) ==
    LET h == validate_header(SubSeq(sensor_data, 1, 2))
        c == validate_checksum(SubSeq(sensor_data, 1, 32))
    IN  IF h.result # Ok
        THEN Arm(<<"validate_header">>,
                 <<"Warning: Invalid header!", "Error validating header">>, stored, TRUE)
        ELSE IF c.result # Ok
        THEN Arm(<<"validate_header", "validate_checksum">>,
                 <<"Error validating checksum">>, stored, TRUE)
        ELSE Arm(<<"validate_header", "validate_checksum", "parse_data", "calculate_aqi">>,
                 <<"PM2.5 concentration">>, parse_data(sensor_data).value.pm2_5_env, FALSE)

\* The Ok arm without `continue` after a failed validation.
OkArm_no_continue(sensor_data, stored) ==
    LET h == validate_header(SubSeq(sensor_data, 1, 2))
        c == validate_checksum(SubSeq(sensor_data, 1, 32))
    IN  IF h.result # Ok
        THEN Arm(<<"validate_header">>,
                 <<"Warning: Invalid header!", "Error validating header">>, stored, FALSE)
        ELSE IF c.result # Ok
        THEN Arm(<<"validate_header", "validate_checksum">>,
                 <<"Error validating checksum">>, stored, FALSE)
        ELSE Arm(<<"validate_header", "validate_checksum", "parse_data", "calculate_aqi">>,
                 <<"PM2.5 concentration">>,
                 calculate_aqi(F32FromInt(parse_data(sensor_data).value.pm2_5_env)), FALSE)

\* The Ok arm without the checksum validation.
OkArm_unchecked(sensor_data, stored) ==
    LET h == validate_header(SubSeq(sensor_data, 1, 2))
    IN  IF h.result # Ok
        THEN Arm(<<"validate_header">>,
                 <<"Warning: Invalid header!", "Error validating header">>, stored, TRUE)
        ELSE Arm(<<"validate_header", "validate_checksum", "parse_data", "calculate_aqi">>,
                 <<"PM2.5 concentration">>,
                 calculate_aqi(F32FromInt(parse_data(sensor_data).value.pm2_5_env)), FALSE)

\* The arm Ok(sensor_data) of the match, with aqi = stored before it.
OkArm(sensor_data, stored) ==
    LET h == validate_header(SubSeq(sensor_data, 1, 2))
    IN  IF h.result # Ok
        THEN Arm(<<"validate_header">>,
                 <<"Warning: Invalid header!", "Error validating header">>, stored, TRUE)
        ELSE
        LET c == validate_checksum(SubSeq(sensor_data, 1, 32))
        IN  IF c.result # Ok
            THEN Arm(<<"validate_header", "validate_checksum">>,
                     <<"Error validating checksum">>, stored, TRUE)
            ELSE
            LET parsed == parse_data(sensor_data)
                data == IF parsed.result = Ok THEN parsed.value ELSE Pmsa003iData_default
                printedParse == IF parsed.result = Ok THEN <<>> ELSE <<"Error parsing data">>
                pm25_concentration == data.pm2_5_env
            IN  Arm(<<"validate_header", "validate_checksum", "parse_data", "calculate_aqi">>,
                    printedParse \o <<"PM2.5 concentration">>,
                    calculate_aqi(F32FromInt(pm25_concentration)), FALSE)

\* The arm Err(e) of the match.
ErrArm(e, stored) == Arm(<<>>, <<"Error reading registers", e>>, stored, FALSE)

\* The frame gets past both validations of the Ok arm.
PassesValidation(sensor_data) ==
    /\ validate_header(SubSeq(sensor_data, 1, 2)).result = Ok
    /\ validate_checksum(SubSeq(sensor_data, 1, 32)).result = Ok

(***************************************************************************)
(* Inputs of the AQI functions                                             *)
(***************************************************************************)
\* pm25 concentrations n / 10 for n in 0..MaxTenths (the resolution of the table).
MaxTenths == 6000

\* How far apart (in tenths) two successive measurements may lie.
MaxStep == 2

\* How many f32 neighbours of each band edge are tried on either side.
MaxUlps == 2

\* AQI values 0..MaxAqi are given to the colour mapping.
MaxAqi == 600

\* The next f32 above / below a finite x > 0.
F32NextUp(x) ==
    IF x.man = Hidden - 1 THEN F32(x.sign, x.exp + 1, 0) ELSE F32(x.sign, x.exp, x.man + 1)

F32NextDown(x) ==
    IF x.man = 0 THEN F32(x.sign, x.exp - 1, Hidden - 1) ELSE F32(x.sign, x.exp, x.man - 1)

RECURSIVE F32Up(_, _)
F32Up(x, k) == IF k = 0 THEN x ELSE F32Up(F32NextUp(x), k - 1)

RECURSIVE F32Down(_, _)
F32Down(x, k) == IF k = 0 THEN x ELSE F32Down(F32NextDown(x), k - 1)

\* Concentrations n / 100 that lie between two adjacent bands of the table.
GapHundredths ==
    {n \in 0..(10 * MaxTenths) :
        \E i \in 1..5 : 10 * PM25_TENTHS[i][2] < n /\ n < 10 * PM25_TENTHS[i + 1][1]}

\* The f32 values next to the band edges.
EdgeNeighbours ==
    {F32Up(PM25_BREAKPOINTS[i][2], k) : i \in 1..6, k \in 1..MaxUlps}
        \cup {F32Down(PM25_BREAKPOINTS[i][2], k) : i \in 1..6, k \in 1..MaxUlps}
        \cup {F32Up(PM25_BREAKPOINTS[i][1], k) : i \in 1..6, k \in 1..MaxUlps}
        \cup {F32Down(PM25_BREAKPOINTS[i][1], k) : i \in 2..6, k \in 1..MaxUlps}

\* -0.0, -1.0, NaN, infinity, u16::MAX, the least subnormal, f32::MAX.
SpecialInputs ==
    {F32NegZero, F32(1, ExpBias, 0), F32NaN, F32Inf, F32FromInt(U16Max),
     F32(0, 0, 1), F32(0, ExpMax - 1, Hidden - 1)}

OffGridInputs ==
    {F32FromDecimal(n, 100) : n \in GapHundredths} \cup EdgeNeighbours \cup SpecialInputs

NONE == 0 - 1

(***************************************************************************)
(* State                                                                   *)
(***************************************************************************)
VARIABLES
    pm25,        \* the f32 handed to calculate_aqi
    tenths,      \* n when pm25 is the literal n / 10, NONE otherwise
    aqi,         \* calculate_aqi(pm25), NONE before the call
    prevTenths,  \* the previous measurement's tenths and result
    prevAqi,
    level,       \* the u16 handed to get_aqi_color
    color,       \* get_aqi_color(level), "none" before the call
    prevColor,   \* the colour of level - 1, when the walk came from there
    buffer,      \* the bytes handed to the validators
    prep,        \* "raw", "stamped" (checksum written) or "flipped" (one bit since)
    hdr,         \* validate_header(buffer)
    hdrSlice,    \* validate_header(&buffer[0..2])
    ck,          \* validate_checksum(buffer)
    data,        \* parse_data(buffer)
    prevData,    \* parse_data of the buffer before a byte outside the fields changed
    pc,          \* where main is suspended: "wait_for_any_edge" or "fetch_data"
    leds,        \* the LEDs whose output is high
    cycle,       \* what the loop iteration of the last edge did
    lastGood     \* the frame of the latest iteration that got past both validations

aqiVars == <<pm25, tenths, aqi, prevTenths, prevAqi>>

colorVars == <<level, color, prevColor>>

frameVars == <<buffer, prep, hdr, hdrSlice, ck>>

parseVars == <<data, prevData>>

mainVars == <<pc, leds, cycle, lastGood>>

vars == <<aqiVars, colorVars, frameVars, parseVars, mainVars>>

AqiIdle == pm25 = F32Zero /\ tenths = NONE /\ aqi = NONE /\ prevTenths = NONE /\ prevAqi = NONE

ColorIdle == level = 0 /\ color = "none" /\ prevColor = "none"

FrameIdle ==
    /\ buffer = <<>>
    /\ prep = "raw"
    /\ hdr = NoOutcome
    /\ hdrSlice = NoOutcome
    /\ ck = NoOutcome

ParseIdle == data = NoData /\ prevData = NoData

\* An iteration: the level read after the edge, the transfers started, the
\* frame received, the functions called and messages printed in order, the
\* colour handed to set_color, and aqi and the LEDs as they were at the edge.
Cycle(trigger, transfers, sensor_data, calls, printed, shown, aqiBefore, ledsBefore) ==
    [trigger |-> trigger, transfers |-> transfers, sensor_data |-> sensor_data,
     calls |-> calls, printed |-> printed, color |-> shown,
     aqiBefore |-> aqiBefore, ledsBefore |-> ledsBefore]

NoCycle == Cycle("none", <<>>, <<>>, <<>>, <<>>, "none", 0, {})

MainIdle == pc = "none" /\ leds = {} /\ cycle = NoCycle /\ lastGood = <<>>

(***************************************************************************)
(* calculate_aqi applied to inputs                                         *)
(***************************************************************************)
InitAqi ==
    /\ \/ \E n \in 0..MaxTenths : tenths = n /\ pm25 = F32FromDecimal(n, 10)
       \/ \E v \in OffGridInputs : tenths = NONE /\ pm25 = v
    /\ aqi = NONE
    /\ prevTenths = NONE
    /\ prevAqi = NONE
    /\ ColorIdle
    /\ FrameIdle
    /\ ParseIdle
    /\ MainIdle

Measure ==
    /\ aqi = NONE
    /\ aqi' = calculate_aqi(pm25)
    /\ UNCHANGED <<pm25, tenths, prevTenths, prevAqi, colorVars, frameVars, parseVars, mainVars>>

\* A further measurement, k tenths above the last one.
Advance(k) ==
    /\ aqi # NONE
    /\ tenths # NONE
    /\ tenths + k <= MaxTenths
    /\ prevTenths' = tenths
    /\ prevAqi' = aqi
    /\ tenths' = tenths + k
    /\ pm25' = F32FromDecimal(tenths + k, 10)
    /\ aqi' = NONE
    /\ UNCHANGED <<colorVars, frameVars, parseVars, mainVars>>

NextAqi == Measure \/ \E k \in 1..MaxStep : Advance(k)

SpecAqi == InitAqi /\ [][NextAqi]_vars

(***************************************************************************)
(* get_aqi_color applied to inputs                                         *)
(***************************************************************************)
InitColor ==
    /\ level \in (0..MaxAqi) \cup {999, 9999, U16Max}
    /\ color = "none"
    /\ prevColor = "none"
    /\ AqiIdle
    /\ FrameIdle
    /\ ParseIdle
    /\ MainIdle

MapColor ==
    /\ color = "none"
    /\ color' = get_aqi_color(level)
    /\ UNCHANGED <<level, prevColor, aqiVars, frameVars, parseVars, mainVars>>

\* The next AQI value up.
StepUp ==
    /\ color # "none"
    /\ level < MaxAqi
    /\ level' = level + 1
    /\ prevColor' = color
    /\ color' = "none"
    /\ UNCHANGED <<aqiVars, frameVars, parseVars, mainVars>>

NextColor == MapColor \/ StepUp

SpecColor == InitColor /\ [][NextColor]_vars

(***************************************************************************)
(* The validators applied to buffers                                       *)
(***************************************************************************)
\* Buffers of 0..MaxBufLen bytes are tried.
MaxBufLen == 33

HeaderBytes == {66, 77, 1}

FillBytes == {0, 1, 255}

TrailerBytes == {0, 30}

\* len bytes: h0 h1, then fill, with t0 t1 at bytes[30..32].
FrameOf(len, h0, h1, fill, t0, t1) ==
    [i \in 1..len |->
        IF i = 1 THEN h0
        ELSE IF i = 2 THEN h1
        ELSE IF i = CHECKSUM_OFFSET + 1 THEN t0
        ELSE IF i = CHECKSUM_OFFSET + 2 THEN t1
        ELSE fill]

InitFrame ==
    /\ \E len \in 0..MaxBufLen, h0 \in HeaderBytes, h1 \in HeaderBytes,
          fill \in FillBytes, t1 \in TrailerBytes :
            buffer = FrameOf(len, h0, h1, fill, 0, t1)
    /\ prep = "raw"
    /\ hdr = NoOutcome
    /\ hdrSlice = NoOutcome
    /\ ck = NoOutcome
    /\ AqiIdle
    /\ ColorIdle
    /\ ParseIdle
    /\ MainIdle

Unvalidated == hdr = NoOutcome /\ hdrSlice = NoOutcome /\ ck = NoOutcome

\* The sum of bytes[0..30) is written big-endian into bytes[30..32].
WriteChecksum ==
    /\ Unvalidated
    /\ prep = "raw"
    /\ Len(buffer) >= TOTAL_REGISTERS
    /\ LET sum == to_be_bytes(SumFrom(buffer, 1, 0))
       IN  buffer' = [buffer EXCEPT ![CHECKSUM_OFFSET + 1] = sum[1],
                                    ![CHECKSUM_OFFSET + 2] = sum[2]]
    /\ prep' = "stamped"
    /\ UNCHANGED <<hdr, hdrSlice, ck, aqiVars, colorVars, parseVars, mainVars>>

FlippedBit(byte, b) ==
    IF (byte \div Pow2(b)) % 2 = 1 THEN byte - Pow2(b) ELSE byte + Pow2(b)

\* Bit b of bytes[k] of a frame with a written checksum is flipped in transit.
FlipBit(k, b) ==
    /\ Unvalidated
    /\ prep = "stamped"
    /\ buffer' = [buffer EXCEPT ![k + 1] = FlippedBit(buffer[k + 1], b)]
    /\ prep' = "flipped"
    /\ UNCHANGED <<hdr, hdrSlice, ck, aqiVars, colorVars, parseVars, mainVars>>

ValidateHeader ==
    /\ hdr = NoOutcome
    /\ hdr' = validate_header(buffer)
    /\ UNCHANGED <<buffer, prep, hdrSlice, ck, aqiVars, colorVars, parseVars, mainVars>>

\* The call of the main loop: validate_header(&sensor_data[0..2]).
ValidateHeaderSlice ==
    /\ hdrSlice = NoOutcome
    /\ Len(buffer) >= 2
    /\ hdrSlice' = validate_header(SubSeq(buffer, 1, 2))
    /\ UNCHANGED <<buffer, prep, hdr, ck, aqiVars, colorVars, parseVars, mainVars>>

ValidateChecksum ==
    /\ ck = NoOutcome
    /\ ck' = validate_checksum(buffer)
    /\ UNCHANGED <<buffer, prep, hdr, hdrSlice, aqiVars, colorVars, parseVars, mainVars>>

NextFrame ==
    \/ WriteChecksum
    \/ \E k \in 0..(CHECKSUM_OFFSET - 1), b \in 0..7 : FlipBit(k, b)
    \/ ValidateHeader
    \/ ValidateHeaderSlice
    \/ ValidateChecksum

SpecFrame == InitFrame /\ [][NextFrame]_vars

(***************************************************************************)
(* parse_data applied to buffers                                           *)
(***************************************************************************)
\* bytes[k] = (base + k * step) mod 256.
RampBases == {0, 41, 200, 255}

RampSteps == {0, 1, 7, 37}

RampOf(len, base, step) == [i \in 1..len |-> (base + (i - 1) * step) % 256]

\* The bytes parse_data takes no field from.
OutsideFields == (0..3) \cup (28..31)

PokeBytes == {0, 255}

InitParse ==
    /\ \E len \in 0..MaxBufLen, base \in RampBases, step \in RampSteps :
            buffer = RampOf(len, base, step)
    /\ prep = "raw"
    /\ hdr = NoOutcome
    /\ hdrSlice = NoOutcome
    /\ ck = NoOutcome
    /\ ParseIdle
    /\ AqiIdle
    /\ ColorIdle
    /\ MainIdle

ParseData ==
    /\ data = NoData
    /\ data' = parse_data(buffer)
    /\ UNCHANGED <<frameVars, prevData, aqiVars, colorVars, mainVars>>

\* A byte outside the twelve fields takes another value; the buffer is
\* parsed again afterwards.
Overwrite(k, v) ==
    /\ data # NoData
    /\ prevData = NoData
    /\ k < Len(buffer)
    /\ buffer[k + 1] # v
    /\ buffer' = [buffer EXCEPT ![k + 1] = v]
    /\ prevData' = data
    /\ data' = NoData
    /\ UNCHANGED <<prep, hdr, hdrSlice, ck, aqiVars, colorVars, mainVars>>

NextParse == ParseData \/ \E k \in OutsideFields, v \in PokeBytes : Overwrite(k, v)

SpecParse == InitParse /\ [][NextParse]_vars

(***************************************************************************)
(* The loop of main                                                        *)
(***************************************************************************)
\* The PM2.5 (environmental) values the sensor reports.
PmValues == {0, 9, 10, 35, 36, 41, 55, 56, 125, 126, 225, 226, 500, 501, 1000, U16Max}

HeaderPairs == {<<66, 77>>, <<77, 66>>, <<66, 0>>}

\* The sensor's answer: header, every other field 0x0101, the PM2.5
\* environmental field, and the sum of the first 30 bytes plus skew.
SensorFrame(h, pm, skew) ==
    LET body == [i \in 1..TOTAL_REGISTERS |->
                    IF i <= 2 THEN h[i]
                    ELSE IF i = 13 THEN to_be_bytes(pm)[1]
                    ELSE IF i = 14 THEN to_be_bytes(pm)[2]
                    ELSE IF i > CHECKSUM_OFFSET THEN 0
                    ELSE 1]
        sum == to_be_bytes(wrapping_add(SumFrom(body, 1, 0), skew))
    IN  [body EXCEPT ![CHECKSUM_OFFSET + 1] = sum[1], ![CHECKSUM_OFFSET + 2] = sum[2]]

SensorFrames == {SensorFrame(h, pm, skew) : h \in HeaderPairs, pm \in PmValues, skew \in {0, 1}}

\* embassy_stm32::i2c::Error values.
I2cErrors == {"Nack", "Timeout"}

\* main up to its first suspension: the LEDs are initialised low, the ping is
\* announced and its transfer started; aqi is not declared yet.
StartUp ==
    Cycle("none", <<ping>>, <<>>, <<"i2c.write">>, <<"Attempting to ping device">>,
          "none", NONE, {})

Init ==
    /\ pc = "i2c.write"
    /\ aqi = NONE
    /\ leds = {}
    /\ cycle = StartUp
    /\ lastGood = <<>>
    /\ pm25 = F32Zero /\ tenths = NONE /\ prevTenths = NONE /\ prevAqi = NONE
    /\ ColorIdle
    /\ FrameIdle
    /\ ParseIdle

\* The ping completes, answered or not: its outcome is printed, aqi is
\* declared as 0 and main waits for the first edge.
PingDone(printed) ==
    /\ pc = "i2c.write"
    /\ pc' = "wait_for_any_edge"
    /\ aqi' = 0
    /\ cycle' = [cycle EXCEPT !.printed = @ \o printed]
    /\ UNCHANGED <<pm25, tenths, prevTenths, prevAqi, leds, lastGood,
                   colorVars, frameVars, parseVars>>

PingOk == PingDone(<<"Device responded to ping">>)

PingErr(e) == PingDone(<<"Device did not respond to ping", e>>)

\* wait_for_any_edge returns and the button reads high: fetch_data starts its
\* transfer and main is suspended on it.
EdgeHigh ==
    /\ pc = "wait_for_any_edge"
    /\ pc' = "fetch_data"
    /\ cycle' = Cycle("high", <<write_read>>, <<>>, <<"fetch_data">>, <<>>, "none", aqi, leds)
    /\ UNCHANGED <<aqiVars, leds, lastGood, colorVars, frameVars, parseVars>>

\* wait_for_any_edge returns and the button reads low.
EdgeLow ==
    /\ pc = "wait_for_any_edge"
    /\ leds' = all_off(leds)
    /\ cycle' = Cycle("low", <<>>, <<>>, <<"all_off">>, <<>>, "none", aqi, leds)
    /\ UNCHANGED <<pc, aqiVars, lastGood, colorVars, frameVars, parseVars>>

\* The rest of the iteration once the match arm has run.
Finish(arm, sensor_data) ==
    /\ pc' = "wait_for_any_edge"
    /\ aqi' = arm.aqi
    /\ lastGood' = IF sensor_data # <<>> /\ PassesValidation(sensor_data)
                   THEN sensor_data ELSE lastGood
    /\ IF arm.continue
       THEN /\ leds' = leds
            /\ cycle' = [cycle EXCEPT !.sensor_data = sensor_data,
                                      !.calls = @ \o arm.calls,
                                      !.printed = arm.printed]
       ELSE LET shown == get_aqi_color(arm.aqi)
            IN  /\ leds' = set_color(leds, shown)
                /\ cycle' = [cycle EXCEPT !.sensor_data = sensor_data,
                                          !.calls = @ \o arm.calls \o <<"get_aqi_color", "set_color">>,
                                          !.printed = arm.printed \o <<"Calculated AQI", "">>,
                                          !.color = shown]
    /\ UNCHANGED <<pm25, tenths, prevTenths, prevAqi, colorVars, frameVars, parseVars>>

\* The transfer completes with 32 bytes.
ReadOk(sensor_data) ==
    /\ pc = "fetch_data"
    /\ Finish(OkArm(sensor_data, aqi), sensor_data)

\* The transfer fails.
ReadErr(e) ==
    /\ pc = "fetch_data"
    /\ Finish(ErrArm(e, aqi), <<>>)

Next ==
    \/ PingOk
    \/ \E e \in I2cErrors : PingErr(e)
    \/ EdgeHigh
    \/ EdgeLow
    \/ \E sensor_data \in SensorFrames : ReadOk(sensor_data)
    \/ \E e \in I2cErrors : ReadErr(e)

Spec == Init /\ [][Next]_vars

(***************************************************************************)
(* Properties of calculate_aqi and get_aqi_color                           *)
(***************************************************************************)
\* The six bands as the specification lists them:
\* <<conc_low, conc_high (tenths), index_low, index_high>>.
ClaimBands ==
    << <<0, 90, 0, 50>>, <<91, 354, 51, 100>>, <<355, 554, 101, 150>>,
       <<555, 1254, 151, 200>>, <<1255, 2254, 201, 300>>, <<2255, 5000, 301, 500>> >>

\* The first band, in table order, that holds n tenths; 0 when none does.
ClaimBandOf(n) ==
    IF \E i \in 1..6 : ClaimBands[i][1] <= n /\ n <= ClaimBands[i][2]
    THEN CHOOSE i \in 1..6 :
            /\ ClaimBands[i][1] <= n /\ n <= ClaimBands[i][2]
            /\ \A j \in 1..(i - 1) : ~(ClaimBands[j][1] <= n /\ n <= ClaimBands[j][2])
    ELSE 0

\* round-half-away-from-zero of (ih - il) / (ch - cl) * (c - cl) + il at
\* c = n / 10, in exact arithmetic.
ExactAqi(n, b) ==
    LET num == (b[4] - b[3]) * (n - b[1])
        den == b[2] - b[1]
    IN  b[3] + (2 * num + den) \div (2 * den)

\* C1: a concentration inside a band is interpolated in the first band that
\* holds it and rounded half away from zero; 41 gives 115, 7 gives 39 and 33
\* gives 96.
C1_Interpolation ==
    (aqi # NONE /\ tenths # NONE /\ ClaimBandOf(tenths) # 0) =>
        /\ aqi = ExactAqi(tenths, ClaimBands[ClaimBandOf(tenths)])
        /\ tenths = 410 => aqi = 115
        /\ tenths = 70 => aqi = 39
        /\ tenths = 330 => aqi = 96

C1_Witness == tenths = 410 /\ aqi = 115

\* C2: at a band's lower edge the result is the band's index_low, at its upper
\* edge its index_high, so the results across two adjacent edges differ by 1.
C2_Edges ==
    aqi # NONE =>
        /\ \A i \in 1..6 :
            /\ tenths = ClaimBands[i][1] => aqi = ClaimBands[i][3]
            /\ tenths = ClaimBands[i][2] => aqi = ClaimBands[i][4]
        /\ \A i \in 1..5 :
            (prevTenths = ClaimBands[i][2] /\ tenths = ClaimBands[i + 1][1]) =>
                aqi - prevAqi = 1

C2_Witness == prevTenths = 90 /\ tenths = 91 /\ prevAqi = 50 /\ aqi = 51

\* C3: every input yields a u16; a non-negative input yields 0..500, and an
\* input above 500.0 yields exactly 500.
C3_Range ==
    aqi # NONE =>
        /\ aqi \in 0..U16Max
        /\ (~IsNaN(pm25) /\ (pm25.sign = 0 \/ IsZero(pm25))) => aqi \in 0..500
        /\ (~IsNaN(pm25) /\ F32Ord(pm25) > F32Ord(F32FromInt(500))) => aqi = 500

C3_Witness == tenths = MaxTenths /\ aqi = 500 /\ MaxTenths > 5000

\* C4: of two concentrations in the same band, the larger never gets the
\* smaller result.
C4_Monotone ==
    (aqi # NONE /\ prevTenths # NONE /\ prevTenths <= tenths
        /\ ClaimBandOf(tenths) # 0 /\ ClaimBandOf(prevTenths) = ClaimBandOf(tenths)) =>
        prevAqi <= aqi

C4_Witness == prevTenths = 408 /\ tenths = 410 /\ prevAqi = 114 /\ aqi = 115

\* The f32 the literal of n tenths denotes.
ClaimEdge(n) == F32FromDecimal(n, 10)

\* pm25 lies strictly between band i's upper edge and band i+1's lower edge.
InGap(v, i) ==
    /\ ~IsNaN(v)
    /\ F32Ord(ClaimEdge(ClaimBands[i][2])) < F32Ord(v)
    /\ F32Ord(v) < F32Ord(ClaimEdge(ClaimBands[i + 1][1]))

\* C5: a concentration strictly between two adjacent bands matches no band
\* and yields 500.
C5_Gaps ==
    (aqi # NONE /\ \E i \in 1..5 : InGap(pm25, i)) => aqi = 500

C5_Witness == pm25 = F32FromDecimal(905, 100) /\ InGap(pm25, 1) /\ aqi = 500

\* The categories by the upper end of their AQI range, as the specification
\* lists them; the last has no upper end.
ClaimColorTop == <<50, 100, 150, 200, 300>>

ClaimRank(a) ==
    IF \E i \in 1..5 : a <= ClaimColorTop[i]
    THEN CHOOSE i \in 1..5 : a <= ClaimColorTop[i] /\ \A j \in 1..(i - 1) : a > ClaimColorTop[j]
    ELSE 6

RankOf(c) == CHOOSE i \in 1..6 : Colors[i] = c

\* C6: get_aqi_color is the step function of the six ranges, total on u16,
\* and never decreases as the AQI grows.
C6_Color ==
    color # "none" =>
        /\ color = Colors[ClaimRank(level)]
        /\ prevColor # "none" => RankOf(prevColor) <= RankOf(color)

C6_Witness == level = 301 /\ prevColor = "Purple" /\ color = "DarkPurple"

(***************************************************************************)
(* Properties of validate_checksum and validate_header                     *)
(***************************************************************************)
\* The sum of bytes[0..30) modulo 2^16, and the big-endian value of bytes[30..32).
ClaimSum(bytes) ==
    LET partial[i \in 0..CHECKSUM_OFFSET] == IF i = 0 THEN 0 ELSE partial[i - 1] + bytes[i]
    IN  partial[CHECKSUM_OFFSET] % U16Mod

ClaimTrailer(bytes) == 256 * bytes[31] + bytes[32]

\* C7: a 32-byte frame passes the checksum check exactly when the sum of its
\* first 30 bytes modulo 2^16 is the big-endian value of its last two, and
\* fails with the checksum-mismatch error otherwise; a frame whose checksum
\* was written from that sum passes, and fails once a payload bit is flipped.
C7_Checksum ==
    (ck # NoOutcome /\ Len(buffer) = 32) =>
        /\ ck.result \in {Ok, ErrChecksum}
        /\ ck.result = Ok <=> ClaimSum(buffer) = ClaimTrailer(buffer)
        /\ prep = "stamped" => ck.result = Ok
        /\ prep = "flipped" => ck.result = ErrChecksum

C7_Witness == Len(buffer) = 32 /\ prep = "flipped" /\ ck.result = ErrChecksum

\* C8 as stated: every buffer whose length is not 32, longer ones included,
\* fails with the length error before any byte is read.
C8_ExactLength ==
    (ck # NoOutcome /\ Len(buffer) # 32) => (ck.result = ErrLength /\ ck.read = {})

\* C9 as stated: a buffer of at least 2 bytes, a full frame included, passes
\* the header check exactly when its first two bytes are 0x42 0x4D.
C9_AnyLength ==
    (hdr # NoOutcome /\ Len(buffer) >= 2) =>
        /\ hdr.result \in {Ok, ErrHeader}
        /\ hdr.result = Ok <=> (buffer[1] = 66 /\ buffer[2] = 77)

\* C9 amended: a buffer of exactly 2 bytes passes exactly when it is
\* 0x42 0x4D; a longer buffer fails with the invalid-header error whatever it
\* holds; the 2-byte slice the main loop passes decides by the frame's first
\* two bytes alone, whatever the other bytes and the checksum are.
C9_Header ==
    /\ (hdr # NoOutcome /\ Len(buffer) >= 2) =>
        /\ hdr.result \in {Ok, ErrHeader}
        /\ hdr.result = Ok <=> (Len(buffer) = 2 /\ buffer[1] = 66 /\ buffer[2] = 77)
    /\ hdrSlice # NoOutcome =>
        /\ hdrSlice.result \in {Ok, ErrHeader}
        /\ hdrSlice.result = Ok <=> (buffer[1] = 66 /\ buffer[2] = 77)

C9_Witness ==
    /\ Len(buffer) = 32 /\ buffer[1] = 66 /\ buffer[2] = 77
    /\ hdr.result = ErrHeader
    /\ hdrSlice.result = Ok
    /\ ck.result = ErrChecksum

\* C10 as stated: a buffer of fewer than 2 bytes gets the Empty error, as a
\* value.
C10_Short ==
    (hdr # NoOutcome /\ Len(buffer) < 2) => hdr.result = ErrEmpty

(***************************************************************************)
(* Properties of parse_data                                                *)
(***************************************************************************)
\* The twelve fields in declaration order, with the offset k of each.
ClaimFields ==
    << <<"_pm1_0_standard", 4>>, <<"_pm2_5_standard", 6>>, <<"_pm10_standard", 8>>,
       <<"_pm1_0_env", 10>>, <<"pm2_5_env", 12>>, <<"_pm10_env", 14>>,
       <<"_particles_0_3", 16>>, <<"_particles_0_5", 18>>, <<"_particles_1_0", 20>>,
       <<"_particles_2_5", 22>>, <<"_particles_5_0", 24>>, <<"_particles_10", 26>> >>

\* C11: parse_data fails with the buffer-too-short error below 32 bytes; from
\* 32 bytes on it succeeds and its twelve fields are 256 * buffer[k] +
\* buffer[k+1] for k = 4, 6, ..., 26 (pm2_5_env at k = 12), for any bytes, and
\* bytes 0..3 and 28..31 do not matter.
C11_Parse ==
    data # NoData =>
        /\ Len(buffer) < 32 => data = Parsed(ErrShort, <<>>)
        /\ Len(buffer) >= 32 =>
            /\ data.result = Ok
            /\ DOMAIN data.value = {ClaimFields[i][1] : i \in 1..12}
            /\ \A i \in 1..12 :
                data.value[ClaimFields[i][1]] =
                    256 * buffer[ClaimFields[i][2] + 1] + buffer[ClaimFields[i][2] + 2]
            /\ data.value.pm2_5_env = 256 * buffer[13] + buffer[14]
            /\ prevData # NoData => data = prevData

C11_Witness ==
    /\ Len(buffer) = 33
    /\ prevData # NoData
    /\ data.result = Ok
    /\ data.value.pm2_5_env = 256 * 84 + 91
    /\ data.value._pm2_5_standard = 256 * 42 + 49
    /\ buffer[1] = 255

(***************************************************************************)
(* Properties of the loop of main                                          *)
(***************************************************************************)
\* The iteration of the last edge read the button high and has finished.
Completed == cycle.trigger = "high" /\ pc = "wait_for_any_edge"

ReadFailed == Completed /\ cycle.sensor_data = <<>>

ReadSucceeded == Completed /\ cycle.sensor_data # <<>>

ClaimHeaderOk(bytes) == bytes[1] = 66 /\ bytes[2] = 77

ClaimChecksumOk(bytes) == ClaimSum(bytes) = ClaimTrailer(bytes)

\* The PM2.5 environmental field of a frame and the AQI of an integer
\* concentration: interpolated in its band up to 500, and 500 above.
ClaimPm(bytes) == 256 * bytes[13] + bytes[14]

ClaimAqiOfPm(pm) ==
    IF pm <= 500 THEN ExactAqi(10 * pm, ClaimBands[ClaimBandOf(10 * pm)]) ELSE 500

ClaimSeverity(a) == Colors[ClaimRank(a)]

Called(f) == \E i \in 1..Len(cycle.calls) : cycle.calls[i] = f

\* C12: in a cycle whose read succeeds and whose frame has the header
\* 0x42 0x4D and a correct checksum, the colour handed to the indicator is
\* the severity of the AQI of the big-endian PM2.5 field bytes[12..14]; 0x0029
\* gives 41, AQI 115, Orange.
C12_Success ==
    (ReadSucceeded /\ ClaimHeaderOk(cycle.sensor_data) /\ ClaimChecksumOk(cycle.sensor_data)) =>
        /\ aqi = ClaimAqiOfPm(ClaimPm(cycle.sensor_data))
        /\ cycle.color = ClaimSeverity(ClaimAqiOfPm(ClaimPm(cycle.sensor_data)))
        /\ ClaimPm(cycle.sensor_data) = 41 => aqi = 115 /\ cycle.color = "Orange"

C12_Witness ==
    /\ ReadSucceeded
    /\ cycle.sensor_data[13] = 0 /\ cycle.sensor_data[14] = 41
    /\ ClaimHeaderOk(cycle.sensor_data) /\ ClaimChecksumOk(cycle.sensor_data)
    /\ cycle.aqiBefore = 500
    /\ cycle.color = "Orange"
    /\ leds = {"led_orange1", "led_orange2"}

\* C13: when the read fails the cycle reports the read error, computes no
\* colour and writes none to the LEDs, which stay as they were at the edge.
C13_ReadError ==
    ReadFailed =>
        /\ cycle.printed[1] = "Error reading registers"
        /\ cycle.color = "none"
        /\ ~Called("get_aqi_color")
        /\ ~Called("set_color")
        /\ leds = cycle.ledsBefore

\* C14: a high edge starts exactly one transfer, reading 32 bytes from
\* register 0x00 of the sensor at 0x12, whatever the outcome, and once the
\* transfer has completed main waits for the next edge again.
C14_OneRead ==
    /\ pc \in {"i2c.write", "wait_for_any_edge", "fetch_data"}
    /\ cycle.trigger = "none" => cycle.transfers = <<[addr |-> 18, write |-> <<0>>, read |-> 0]>>
    /\ pc = "fetch_data" => cycle.trigger = "high" /\ cycle.printed = <<>>
    /\ cycle.trigger = "high" =>
        /\ cycle.transfers = << [addr |-> 18, write |-> <<0>>, read |-> 32] >>
        /\ Cardinality({i \in 1..Len(cycle.calls) : cycle.calls[i] = "fetch_data"}) = 1
        /\ cycle.printed # <<>> => pc = "wait_for_any_edge"
        /\ pc = "wait_for_any_edge" =>
            cycle.printed[1] \in {"Error reading registers", "Warning: Invalid header!",
                                  "Error validating checksum", "PM2.5 concentration"}

C14_Witness ==
    /\ Completed
    /\ cycle.printed = <<"Error validating checksum">>
    /\ Len(cycle.transfers) = 1
    /\ Len(cycle.sensor_data) = 32

\* C15: a low edge starts no transfer and computes no AQI; it turns all
\* eight LEDs off and leaves the stored AQI as it was.
C15_Low ==
    cycle.trigger = "low" =>
        /\ pc = "wait_for_any_edge"
        /\ cycle.transfers = <<>>
        /\ ~Called("fetch_data")
        /\ ~Called("calculate_aqi")
        /\ leds \cap LedNames = {}
        /\ aqi = cycle.aqiBefore

C15_Witness ==
    /\ cycle.trigger = "low"
    /\ cycle.ledsBefore = {"led_red2", "led_blue1", "led_blue2"}
    /\ leds = {}
    /\ aqi = 500

\* C16: in every cycle the checksum check runs only after the frame's header
\* check passed; parse_data, calculate_aqi and get_aqi_color run only after
\* both checks passed; a header failure ends the cycle with neither the
\* checksum check nor the decoder run.
C16_Ordered ==
    Completed =>
        LET headerPassed == ReadSucceeded /\ ClaimHeaderOk(cycle.sensor_data)
            bothPassed == headerPassed /\ ClaimChecksumOk(cycle.sensor_data)
        IN  /\ Called("validate_checksum") => headerPassed
            /\ Called("parse_data") => bothPassed
            /\ Called("calculate_aqi") => bothPassed
            /\ Called("get_aqi_color") => bothPassed
            /\ (ReadSucceeded /\ ~headerPassed) =>
                    ~Called("validate_checksum") /\ ~Called("parse_data")

\* C17: when the frame fails the header check or the checksum check, the
\* stored AQI and the LEDs are as they were at the edge and no colour was
\* handed to the indicator.
C17_Rejected ==
    (ReadSucceeded /\ ~(ClaimHeaderOk(cycle.sensor_data) /\ ClaimChecksumOk(cycle.sensor_data))) =>
        /\ aqi = cycle.aqiBefore
        /\ leds = cycle.ledsBefore
        /\ cycle.color = "none"
        /\ ~Called("set_color")

C17_Witness ==
    /\ ReadSucceeded
    /\ ClaimHeaderOk(cycle.sensor_data)
    /\ ~ClaimChecksumOk(cycle.sensor_data)
    /\ ClaimPm(cycle.sensor_data) = 226
    /\ cycle.aqiBefore = 115
    /\ aqi = 115
    /\ leds = {"led_orange1", "led_orange2"}

(***************************************************************************)
(* calculate_aqi followed by get_aqi_color                                 *)
(***************************************************************************)
\* pm25 lies in band i, edges included.
InClaimBand(v, i) ==
    /\ ~IsNaN(v)
    /\ F32Ord(ClaimEdge(ClaimBands[i][1])) <= F32Ord(v)
    /\ F32Ord(v) <= F32Ord(ClaimEdge(ClaimBands[i][2]))

\* C18: a concentration in band i gets an AQI within band i's index range and
\* so the i-th colour; every integer concentration 0..500 lies in a band, and
\* every integer above 500 gets DarkPurple.
C18_BandColor ==
    aqi # NONE =>
        /\ \A i \in 1..6 :
            (InClaimBand(pm25, i) \/ (tenths # NONE /\ ClaimBandOf(tenths) = i)) =>
                /\ ClaimBands[i][3] <= aqi /\ aqi <= ClaimBands[i][4]
                /\ get_aqi_color(aqi) = Colors[i]
        /\ (tenths # NONE /\ tenths % 10 = 0 /\ tenths <= 5000) =>
                \E i \in 1..6 : InClaimBand(pm25, i) /\ get_aqi_color(aqi) = Colors[i]
        /\ ((tenths # NONE /\ tenths % 10 = 0 /\ tenths > 5000) \/ pm25 = F32FromInt(U16Max)) =>
                get_aqi_color(aqi) = "DarkPurple"

C18_Witness ==
    /\ tenths = 91
    /\ InClaimBand(pm25, 2)
    /\ aqi = 51
    /\ get_aqi_color(aqi) = "Yellow"

(***************************************************************************)
(* The AQI kept across cycles                                              *)
(***************************************************************************)
\* The AQI of the latest cycle that got past both validations, 0 before the
\* first.
ClaimRetained == IF lastGood = <<>> THEN 0 ELSE ClaimAqiOfPm(ClaimPm(lastGood))

\* C19: the stored AQI is written only by a cycle that passed both
\* validations, so it is the AQI of the latest such cycle, or 0 before the
\* first; every colour handed to the indicator is that value's severity (Green
\* before the first), also in a cycle whose read failed.
C19_Retained ==
    pc \in {"wait_for_any_edge", "fetch_data"} =>
        /\ lastGood # <<>> => ClaimHeaderOk(lastGood) /\ ClaimChecksumOk(lastGood)
        /\ aqi = ClaimRetained
        /\ (cycle.trigger # "none" /\ aqi # cycle.aqiBefore) =>
                /\ ReadSucceeded
                /\ ClaimHeaderOk(cycle.sensor_data) /\ ClaimChecksumOk(cycle.sensor_data)
                /\ lastGood = cycle.sensor_data
        /\ cycle.color # "none" =>
                /\ cycle.color = ClaimSeverity(ClaimRetained)
                /\ leds = set_color({}, ClaimSeverity(ClaimRetained))
        /\ ReadFailed =>
                /\ aqi = cycle.aqiBefore
                /\ cycle.color = ClaimSeverity(cycle.aqiBefore)
        /\ (cycle.color # "none" /\ lastGood = <<>>) => cycle.color = "Green"

C19_Witness ==
    /\ ReadFailed
    /\ lastGood # <<>>
    /\ ClaimPm(lastGood) = 41
    /\ cycle.ledsBefore = {}
    /\ cycle.color = "Orange"
    /\ leds = {"led_orange1", "led_orange2"}
====
